---------------------------- MODULE Spec2Model ----------------------------
(***************************************************************************)
(* Model of the rectangle recoverer of the "CALICO 2b1" post               *)
(* (src/data/blog/lambdas.mdx, lines 341-508): the Geo helpers,            *)
(* lower_hull, solve and main.                                             *)
(*                                                                         *)
(* Numbers.  T is long double.  A value is a pair <<n, d>>: d > 0 is the   *)
(* rational n/d in lowest terms, <<1,0>> is +inf, <<-1,0>> is -inf and     *)
(* <<0,0>> is NaN; the operations follow IEEE 754 on these.  Rounding is   *)
(* not modelled: on the inputs drawn here every exact result that is not 0 *)
(* is larger than eps by many orders of magnitude, so each comparison of   *)
(* the code has the outcome computed here.  Zero carries no sign: the only *)
(* zero the code divides by is a difference v - v or 0 / positive, which   *)
(* is +0 in round-to-nearest, so dividing by zero takes the sign of the    *)
(* numerator.                                                              *)
(***************************************************************************)
EXTENDS Integers, Sequences, FiniteSets, TLC

(***************************************************************************)
(* Bounds of the model.                                                    *)
(***************************************************************************)
MaxCoord == 2      \* grid inputs have coordinates in 0..MaxCoord
MaxN == 3          \* grid inputs have 1..MaxN points
MaxDrop == 1       \* rectangle inputs leave out at most MaxDrop perimeter points
MaxT == 2          \* main reads at most MaxT test cases

(***************************************************************************)
(* Program constants.                                                      *)
(***************************************************************************)
EpsDen == 10000000       \* eps = 1e-7 = 1 / EpsDen
Big == 1000000000        \* the 1e9 the running minima and maxima start from
MinPts == 15             \* the problem statement's least n

(***************************************************************************)
(* long double                                                             *)
(***************************************************************************)
NaN == <<0, 0>>
PInf == <<1, 0>>
NInf == <<-1, 0>>
Zero == <<0, 1>>
One == <<1, 1>>

AbsInt(k) == IF k < 0 THEN -k ELSE k

RECURSIVE GCD(_, _)
GCD(a, b) == IF b = 0 THEN a ELSE GCD(b, a % b)

\* the rational n/d (d # 0) in lowest terms with a positive denominator
Norm(n, d) ==
    LET g == GCD(AbsInt(n), AbsInt(d))
        s == IF d < 0 THEN -1 ELSE 1
    IN  <<(s * n) \div g, (s * d) \div g>>

Num(k) == <<k, 1>>
IsNan(v) == v = NaN
IsInf(v) == v = PInf \/ v = NInf
IsFin(v) == v[2] > 0
Sgn(v) == IF v[1] < 0 THEN -1 ELSE 1

Neg(v) == <<-v[1], v[2]>>
Abs(v) == <<AbsInt(v[1]), v[2]>>

Add(a, b) ==
    IF IsNan(a) \/ IsNan(b) THEN NaN
    ELSE IF IsInf(a) THEN (IF IsInf(b) /\ a # b THEN NaN ELSE a)
    ELSE IF IsInf(b) THEN b
    ELSE Norm(a[1] * b[2] + b[1] * a[2], a[2] * b[2])

Sub(a, b) == Add(a, Neg(b))

Mul(a, b) ==
    IF IsNan(a) \/ IsNan(b) THEN NaN
    ELSE IF IsInf(a) \/ IsInf(b)
         THEN (IF a = Zero \/ b = Zero THEN NaN
               ELSE IF Sgn(a) * Sgn(b) > 0 THEN PInf ELSE NInf)
    ELSE Norm(a[1] * b[1], a[2] * b[2])

Div(a, b) ==
    IF IsNan(a) \/ IsNan(b) THEN NaN
    ELSE IF IsInf(a)
         THEN (IF IsInf(b) THEN NaN
               ELSE IF Sgn(a) * Sgn(b) > 0 THEN PInf ELSE NInf)
    ELSE IF IsInf(b) THEN Zero
    ELSE IF b = Zero
         THEN (IF a = Zero THEN NaN ELSE IF a[1] > 0 THEN PInf ELSE NInf)
    ELSE Norm(a[1] * b[2], a[2] * b[1])

\* a < b; every comparison with NaN is false.  Finite values are compared by
\* their integer parts and then their fractional parts, which keeps the
\* products small.
Lt(a, b) ==
    IF IsNan(a) \/ IsNan(b) THEN FALSE
    ELSE IF IsInf(a) \/ IsInf(b)
         THEN a # b /\ (a = NInf \/ b = PInf)
    ELSE LET fa == a[1] \div a[2]
             fb == b[1] \div b[2]
         IN  \/ fa < fb
             \/ fa = fb /\ (a[1] % a[2]) * b[2] < (b[1] % b[2]) * a[2]

Le(a, b) == ~IsNan(a) /\ ~IsNan(b) /\ ~Lt(b, a)

StdMin(a, b) == IF Lt(b, a) THEN b ELSE a
StdMax(a, b) == IF Lt(a, b) THEN b ELSE a

\* v < eps, for v = |..| >= 0: n/d < 1/EpsDen, computed without overflow
LtEps(v) ==
    /\ IsFin(v)
    /\ \/ v[1] = 0
       \/ AbsInt(v[1]) <= (v[2] - 1) \div EpsDen

(***************************************************************************)
(* namespace Geo: a point, a vector and a line are pairs of values.        *)
(***************************************************************************)
cross(a, b) == Sub(Mul(a[1], b[2]), Mul(a[2], b[1]))

PtSub(a, b) == <<Sub(a[1], b[1]), Sub(a[2], b[2])>>

eval(a, x) == Add(Mul(a[1], x), a[2])

intersect(a, b) ==
    LET x == Div(Sub(b[2], a[2]), Sub(a[1], b[1]))
    IN  <<x, eval(a, x)>>

make_line(loc, slope) == <<slope, Sub(loc[2], Mul(slope, loc[1]))>>

make_line_pts(a, b) ==
    make_line(a, Div(Sub(b[2], a[2]), Sub(b[1], a[1])))

RECURSIVE ShoelaceSum(_, _)
ShoelaceSum(locs, i) ==
    IF i > Len(locs) THEN Zero
    ELSE LET p == locs[i]
             q == locs[(i % Len(locs)) + 1]
         IN  Add(Sub(Mul(p[1], q[2]), Mul(p[2], q[1])), ShoelaceSum(locs, i + 1))

\* polygon_area without the halving
polygon_area_twice(locs) == Abs(ShoelaceSum(locs, 1))

polygon_area(locs) == Div(Abs(ShoelaceSum(locs, 1)), Num(2))


\* lexicographic operator< of std::array<T, 2>
PtLt(a, b) == Lt(a[1], b[1]) \/ (~Lt(b[1], a[1]) /\ Lt(a[2], b[2]))

\* std::sort of a vector of points (equal points are identical)
RECURSIVE Insert(_, _)
Insert(s, p) ==
    IF s = <<>> THEN <<p>>
    ELSE IF PtLt(p, Head(s)) THEN <<p>> \o s
    ELSE <<Head(s)>> \o Insert(Tail(s), p)

\* no sort at all
SortNone(s) == s

RECURSIVE Sort(_)
Sort(s) == IF s = <<>> THEN <<>> ELSE Insert(Sort(Tail(s)), Head(s))

\* the loop's condition with < for <=: collinear points stay on the hull
PopCondStrict(h, p) ==
    /\ Len(h) > 1
    /\ Lt(cross(PtSub(h[Len(h)], h[Len(h) - 1]), PtSub(p, h[Len(h)])), Zero)

\* the condition of lower_hull's while loop, for the hull h and the point p
PopCond(h, p) ==
    /\ Len(h) > 1
    /\ Le(cross(PtSub(h[Len(h)], h[Len(h) - 1]), PtSub(p, h[Len(h)])), Zero)

(***************************************************************************)
(* solve: the work on one candidate edge hull[k], hull[k+1] (k from 1).    *)
(***************************************************************************)
RECURSIVE ProjMinX(_, _, _, _, _)
ProjMinX(l1, m2, P, j, acc) ==
    IF j > Len(P) THEN acc
    ELSE ProjMinX(l1, m2, P, j + 1,
                  StdMin(acc, intersect(l1, make_line(P[j], m2))[1]))

RECURSIVE ProjMaxX(_, _, _, _, _)
ProjMaxX(l1, m2, P, j, acc) ==
    IF j > Len(P) THEN acc
    ELSE ProjMaxX(l1, m2, P, j + 1,
                  StdMax(acc, intersect(l1, make_line(P[j], m2))[1]))

RECURSIVE MaxB(_, _, _, _)
MaxB(m1, P, j, acc) ==
    IF j > Len(P) THEN acc
    ELSE MaxB(m1, P, j + 1, StdMax(acc, make_line(P[j], m1)[2]))

\* <<l1, l2, l3, l4>> of the candidate
CandLines(h, k, P) ==
    LET l1 == make_line_pts(h[k], h[k + 1])
        m1 == l1[1]
        m2 == Div(Neg(One), m1)
        min_x == ProjMinX(l1, m2, P, 1, Num(Big))
        max_x == ProjMaxX(l1, m2, P, 1, Num(-Big))
        l2 == make_line(<<min_x, eval(l1, min_x)>>, m2)
        l3 == make_line(<<max_x, eval(l1, max_x)>>, m2)
        l4 == <<m1, MaxB(m1, P, 1, Num(-Big))>>
    IN  <<l1, l2, l3, l4>>

\* works, after the loop over {l1, l2, l3, l4}
Works(ls, p) ==
    \E k \in 1..4 : LtEps(Abs(Sub(eval(ls[k], p[1]), p[2])))

\* good computed with |= for &=: one point that fits is enough
RECURSIVE GoodAny(_, _, _)
GoodAny(ls, P, j) ==
    IF j > Len(P) THEN FALSE ELSE Works(ls, P[j]) \/ GoodAny(ls, P, j + 1)

\* good, after the loop over the points
RECURSIVE Good(_, _, _)
Good(ls, P, j) ==
    IF j > Len(P) THEN TRUE ELSE Works(ls, P[j]) /\ Good(ls, P, j + 1)

\* res: the shoelace area of the intersections of l1, l3, l4, l2 in order
CandArea(ls) ==
    LET segs == <<ls[1], ls[3], ls[4], ls[2]>>
        its == [j \in 1..4 |-> intersect(segs[j], segs[(j % 4) + 1])]
    IN  polygon_area(its)

\* the reflection of the point set
NegPts(P) == [j \in 1..Len(P) |-> <<Mul(P[j][1], Num(-1)), Mul(P[j][2], Num(-1))>>]

\* the fallback's result
RECURSIVE FoldMin(_, _, _, _)
FoldMin(P, c, j, acc) ==
    IF j > Len(P) THEN acc ELSE FoldMin(P, c, j + 1, StdMin(acc, P[j][c]))

RECURSIVE FoldMax(_, _, _, _)
FoldMax(P, c, j, acc) ==
    IF j > Len(P) THEN acc ELSE FoldMax(P, c, j + 1, StdMax(acc, P[j][c]))

\* the fallback's result with min_y taken for min_x in the width
BBoxAreaMixed(P) ==
    LET max_x == FoldMax(P, 1, 1, Num(-Big))
        min_y == FoldMin(P, 2, 1, Num(Big))
        max_y == FoldMax(P, 2, 1, Num(-Big))
    IN  Mul(Sub(max_y, min_y), Sub(max_x, min_y))

BBoxArea(P) ==
    LET min_x == FoldMin(P, 1, 1, Num(Big))
        max_x == FoldMax(P, 1, 1, Num(-Big))
        min_y == FoldMin(P, 2, 1, Num(Big))
        max_y == FoldMax(P, 2, 1, Num(-Big))
    IN  Mul(Sub(max_y, min_y), Sub(max_x, min_x))

(***************************************************************************)
(* std::cout << value: the stream's default format, Precision significant  *)
(* decimal digits (round to nearest, ties to even); inf and nan print as   *)
(* themselves.  The value kept is the number the printed text denotes.     *)
(***************************************************************************)
Precision == 6

RECURSIVE Pow10(_)
Pow10(k) == IF k = 0 THEN 1 ELSE 10 * Pow10(k - 1)

\* the e with 10^(Precision-1) <= a * 10^e < 10^Precision, for finite a > 0
RECURSIVE Exp10(_)
Exp10(a) ==
    IF ~Lt(a, Num(Pow10(Precision))) THEN Exp10(Div(a, Num(10))) - 1
    ELSE IF Lt(a, Num(Pow10(Precision - 1))) THEN Exp10(Mul(a, Num(10))) + 1
    ELSE 0

RoundHalfEven(n, d) ==
    LET f == n \div d
        r == n % d
    IN  IF 2 * r < d THEN f
        ELSE IF 2 * r > d THEN f + 1
        ELSE IF f % 2 = 0 THEN f ELSE f + 1

Fmt(v) ==
    IF ~IsFin(v) \/ v[1] = 0 THEN v
    ELSE LET a == Abs(v)
             e == Exp10(a)
             sc == IF e >= 0 THEN Mul(a, Num(Pow10(e))) ELSE Div(a, Num(Pow10(-e)))
             q == RoundHalfEven(sc[1], sc[2])
             r == IF e >= 0 THEN Norm(q, Pow10(e)) ELSE Num(q * Pow10(-e))
         IN  IF v[1] < 0 THEN Neg(r) ELSE r

(***************************************************************************)
(* Inputs.  A test case is a sequence of points; rect is the rectangle it  *)
(* was sampled from (its corners in order), or <<>> when it is any         *)
(* sequence of grid points.  The order of the points is read by std::sort  *)
(* alone (the other loops take minima, maxima and conjunctions), so the    *)
(* grid inputs are given in non-increasing order, the reverse of the order *)
(* std::sort has to produce.                                               *)
(***************************************************************************)
Pt(x, y) == <<Num(x), Num(y)>>

Grid == {Pt(x, y) : x \in 0..MaxCoord, y \in 0..MaxCoord}

GridCases ==
    {[pts |-> s, rect |-> <<>>] :
        s \in {q \in UNION {[1..k -> Grid] : k \in 1..MaxN} :
                 \A j \in 1..(Len(q) - 1) : ~PtLt(q[j], q[j + 1])}}

\* k points spread evenly over the side from a to b: a + (2 (j-1) + o) (b-a) / 2k
\* for j = 1..k; o = 0 starts at the corner a, o = 1 samples the middles
SidePts(a, b, k, o) ==
    [j \in 1..k |->
        <<Add(a[1], Div(Mul(Num(2 * (j - 1) + o), Sub(b[1], a[1])), Num(2 * k))),
          Add(a[2], Div(Mul(Num(2 * (j - 1) + o), Sub(b[2], a[2])), Num(2 * k)))>>]

\* the perimeter samples of the rectangle c with ks[j] points on side j
Perimeter(c, ks, o) ==
    SidePts(c[1], c[2], ks[1], o) \o SidePts(c[2], c[3], ks[2], o)
        \o SidePts(c[3], c[4], ks[3], o) \o SidePts(c[4], c[1], ks[4], o)

\* the 4 x 3 rectangle of the spec's scenario, 5 points a side; a square and a
\* 2 : 1 rectangle, both tilted, sampled at their lattice points; an 8 x 1
\* rectangle sampled at the middles of unit cells; a tilted 2 : 1 rectangle
\* sampled at the middles of cells, no corner among the samples
Rects ==
    { [c |-> <<Pt(0, 0), Pt(4, 0), Pt(4, 3), Pt(0, 3)>>, ks |-> <<5, 5, 5, 5>>, o |-> 0],
      [c |-> <<Pt(4, 0), Pt(8, 4), Pt(4, 8), Pt(0, 4)>>, ks |-> <<4, 4, 4, 4>>, o |-> 0],
      [c |-> <<Pt(3, 0), Pt(15, 6), Pt(12, 12), Pt(0, 6)>>, ks |-> <<6, 3, 6, 3>>, o |-> 0],
      [c |-> <<Pt(0, 0), Pt(8, 0), Pt(8, 1), Pt(0, 1)>>, ks |-> <<8, 1, 8, 1>>, o |-> 1],
      [c |-> <<Pt(12, 0), Pt(15, 6), Pt(3, 12), Pt(0, 6)>>, ks |-> <<3, 6, 3, 6>>, o |-> 1] }

\* the sets of at most k indices out of 1..n
RECURSIVE DropSets(_, _)
DropSets(n, k) ==
    IF k = 0 THEN {{}}
    ELSE LET S == DropSets(n, k - 1)
         IN  S \cup {D \cup {e} : D \in S, e \in 1..n}

RECURSIVE Without(_, _, _)
Without(s, D, j) ==
    IF j > Len(s) THEN <<>>
    ELSE (IF j \in D THEN <<>> ELSE <<s[j]>>) \o Without(s, D, j + 1)

RectCases ==
    UNION { LET per == Perimeter(r.c, r.ks, r.o)
            IN  {[pts |-> Without(per, D, 1), rect |-> r.c] :
                   D \in {E \in DropSets(Len(per), MaxDrop) :
                            Len(per) - Cardinality(E) >= MinPts}}
          : r \in Rects }

Cases == GridCases \cup RectCases

\* the test cases of a batch: the whole perimeters, and the grid inputs of one
\* or two points on the x axis
BatchCases ==
    {[pts |-> Perimeter(r.c, r.ks, r.o), rect |-> r.c] : r \in Rects}
        \cup {c \in GridCases :
                 Len(c.pts) <= 2 /\ \A j \in 1..Len(c.pts) : c.pts[j][2] = Zero}

(***************************************************************************)
(* State.                                                                  *)
(*   tleft             main's t: the test cases not yet started            *)
(*   pc                where control is: "main" (main's loop test), "pass" *)
(*                     (head of solve's loop over t), "hull" (lower_hull's *)
(*                     loop), "edges" (solve's loop over i), "exit"        *)
(*   pts, t, i         solve's pts, t and i                                *)
(*   locs, hull, hi    lower_hull's locs, hull and i                       *)
(*   out               the values written to std::cout, in order           *)
(* History, read by the properties only:                                   *)
(*   orig, rect        the points as read and the rectangle they came from *)
(*   trace             the candidates the current call has examined        *)
(*   pops              the pops of the current lower_hull call             *)
(*   calls             the calls of solve made so far                      *)
(*   via               what wrote the current call's output                *)
(***************************************************************************)
VARIABLES tleft, pc, pts, t, i, locs, hull, hi, out, orig, rect, trace, pops,
          calls, via

vars == <<tleft, pc, pts, t, i, locs, hull, hi, out, orig, rect, trace, pops,
          calls, via>>

Start(T) ==
    /\ tleft \in T
    /\ pc = "main"
    /\ pts = <<>> /\ t = 0 /\ i = 0
    /\ locs = <<>> /\ hull = <<>> /\ hi = 0
    /\ out = <<>>
    /\ orig = <<>> /\ rect = <<>> /\ trace = <<>> /\ pops = 0
    /\ calls = 0 /\ via = "none"

\* main: while (t--) solve();  solve reads n and the n points
MainCall(c) ==
    /\ pc = "main" /\ tleft > 0
    /\ tleft' = tleft - 1
    /\ pts' = c.pts /\ orig' = c.pts /\ rect' = c.rect
    /\ t' = 0 /\ i' = 0
    /\ locs' = <<>> /\ hull' = <<>> /\ hi' = 0
    /\ trace' = <<>> /\ pops' = 0 /\ via' = "none"
    /\ calls' = calls + 1
    /\ pc' = "pass"
    /\ UNCHANGED out

MainExit ==
    /\ pc = "main" /\ tleft = 0
    /\ pc' = "exit"
    /\ UNCHANGED <<tleft, pts, t, i, locs, hull, hi, out, orig, rect, trace,
                   pops, calls, via>>

\* lower_hull(pts) with fewer than two points: the sorted points are the hull
LowerHullSmall ==
    /\ pc = "pass" /\ t < 2
    /\ Len(pts) < 2
    /\ locs' = Sort(pts)
    /\ hull' = Sort(pts)
    /\ hi' = 0 /\ pops' = 0
    /\ i' = 0
    /\ pc' = "edges"
    /\ UNCHANGED <<tleft, pts, t, out, orig, rect, trace, calls, via>>

\* lower_hull(pts): sort, and enter the loop with an empty hull
LowerHullSort ==
    /\ pc = "pass" /\ t < 2
    /\ ~(Len(pts) < 2)
    /\ locs' = Sort(pts)
    /\ hull' = <<>>
    /\ hi' = 0 /\ pops' = 0
    /\ pc' = "hull"
    /\ UNCHANGED <<tleft, pts, t, i, out, orig, rect, trace, calls, via>>

\* one turn of the while loop: hull.pop_back()
HullPop ==
    /\ pc = "hull" /\ hi < Len(locs)
    /\ PopCond(hull, locs[hi + 1]) = TRUE
    /\ hull' = SubSeq(hull, 1, Len(hull) - 1)
    /\ pops' = pops + 1
    /\ UNCHANGED <<tleft, pc, pts, t, i, locs, hi, out, orig, rect, trace,
                   calls, via>>

\* the while loop is over: hull.push_back(locs[i]), i++
HullPush ==
    /\ pc = "hull" /\ hi < Len(locs)
    /\ PopCond(hull, locs[hi + 1]) = FALSE
    /\ hull' = Append(hull, locs[hi + 1])
    /\ hi' = hi + 1
    /\ UNCHANGED <<tleft, pc, pts, t, i, locs, out, orig, rect, trace, pops,
                   calls, via>>

\* return hull; solve enters its loop over the hull's edges
HullReturn ==
    /\ pc = "hull" /\ hi = Len(locs)
    /\ i' = 0
    /\ pc' = "edges"
    /\ UNCHANGED <<tleft, pts, t, locs, hull, hi, out, orig, rect, trace, pops,
                   calls, via>>

\* the entry of trace for the candidate being examined
Entry(ls, verdict) ==
    [t |-> t, i |-> i, edges |-> Len(hull) - 1, lines |-> ls, verdict |-> verdict]

\* no return after the print: the loop over the edges goes on
AfterPrintLoop == "edges"

\* where control goes after the candidate's area was printed: return
AfterPrint == "main"

\* t is never incremented
NextPassSame(k) == k

\* the pass that follows pass k
NextPass(k) == k + 1

\* the test of the area left out: every area counts as a number
isnan_never(v) == FALSE

\* std::isnan
isnan(v) == IsNan(v)

\* what solve does with the candidate of lines ls: "reject" (continue at
\* !good), "nan" (the area is NaN, the loop goes on) or "accept" (print, return)
Verdict(ls, P) ==
    IF ~Good(ls, P, 1) THEN "reject"
    ELSE IF isnan(CandArea(ls)) THEN "nan"
    ELSE "accept"

\* continue that steps over the next edge as well
CandRejectSkip ==
    /\ pc = "edges" /\ i + 1 < Len(hull)
    /\ \E ls \in {CandLines(hull, i + 1, pts)} :
           /\ Verdict(ls, pts) = "reject"
           /\ trace' = Append(trace, Entry(ls, "reject"))
    /\ i' = i + 2
    /\ UNCHANGED <<tleft, pc, pts, t, locs, hull, hi, out, orig, rect, pops,
                   calls, via>>

\* a candidate some point fits none of the lines of: continue
CandReject ==
    /\ pc = "edges" /\ i + 1 < Len(hull)
    /\ \E ls \in {CandLines(hull, i + 1, pts)} :
           /\ Verdict(ls, pts) = "reject"
           /\ trace' = Append(trace, Entry(ls, "reject"))
    /\ i' = i + 1
    /\ UNCHANGED <<tleft, pc, pts, t, locs, hull, hi, out, orig, rect, pops,
                   calls, via>>

\* a candidate every point fits, of area NaN: the loop goes on
CandNaN ==
    /\ pc = "edges" /\ i + 1 < Len(hull)
    /\ \E ls \in {CandLines(hull, i + 1, pts)} :
           /\ Verdict(ls, pts) = "nan"
           /\ trace' = Append(trace, Entry(ls, "nan"))
    /\ i' = i + 1
    /\ UNCHANGED <<tleft, pc, pts, t, locs, hull, hi, out, orig, rect, pops,
                   calls, via>>

\* a candidate every point fits, of an area that is not NaN: print, return
CandAccept ==
    /\ pc = "edges" /\ i + 1 < Len(hull)
    /\ \E ls \in {CandLines(hull, i + 1, pts)} :
           /\ Verdict(ls, pts) = "accept"
           /\ trace' = Append(trace, Entry(ls, "accept"))
           /\ out' = Append(out, Fmt(CandArea(ls)))
    /\ via' = "candidate"
    /\ i' = i + 1
    /\ pc' = AfterPrint
    /\ UNCHANGED <<tleft, pts, t, locs, hull, hi, orig, rect, pops, calls>>

\* the loop over the edges is over: reflect the points, t++
Reflect ==
    /\ pc = "edges" /\ ~(i + 1 < Len(hull))
    /\ pts' = NegPts(pts)
    /\ t' = NextPass(t)
    /\ pc' = "pass"
    /\ UNCHANGED <<tleft, i, locs, hull, hi, out, orig, rect, trace, pops,
                   calls, via>>

\* both passes are over: return, printing nothing
FallbackSilent ==
    /\ pc = "pass" /\ ~(t < 2)
    /\ pc' = "main"
    /\ UNCHANGED <<tleft, pts, t, i, locs, hull, hi, out, orig, rect, trace,
                   pops, calls, via>>

\* both passes are over: print the area of the bounding box, return
Fallback ==
    /\ pc = "pass" /\ ~(t < 2)
    /\ out' = Append(out, Fmt(BBoxArea(pts)))
    /\ via' = "fallback"
    /\ pc' = "main"
    /\ UNCHANGED <<tleft, pts, t, i, locs, hull, hi, orig, rect, trace, pops,
                   calls>>

Solve ==
    \/ LowerHullSmall \/ LowerHullSort \/ HullPop \/ HullPush \/ HullReturn
    \/ CandReject \/ CandNaN \/ CandAccept \/ Reflect \/ Fallback

\* one call of solve, on any input
Init == Start({1})
ReadAny == pc = "main" /\ \E c \in Cases : MainCall(c)
Next == ReadAny \/ Solve \/ MainExit
Spec == Init /\ [][Next]_vars

\* main on a batch of up to MaxT whole perimeters
InitBatch == Start(0..MaxT)
ReadBatch == pc = "main" /\ \E c \in BatchCases : MainCall(c)
NextBatch == ReadBatch \/ Solve \/ MainExit
BatchSpec == InitBatch /\ [][NextBatch]_vars

(***************************************************************************)
(* Definitions the properties share.                                       *)
(***************************************************************************)
\* a call of solve has returned, and the history is that of this call
Returned == pc \in {"main", "exit"} /\ calls > 0

LastOut == out[Len(out)]

\* the points solve works on in pass k
PassPts(k) == IF k = 1 THEN NegPts(orig) ELSE orig

NoAccept == \A k \in 1..Len(trace) : trace[k].verdict # "accept"

\* the candidate's edge is horizontal or vertical
Degenerate(e) == e.lines[1][1] = Zero \/ IsInf(e.lines[1][1])

\* p lies on the closed segment from a to b
OnSide(p, a, b) ==
    LET ab == PtSub(b, a)
        ap == PtSub(p, a)
        dot == Add(Mul(ab[1], ap[1]), Mul(ab[2], ap[2]))
        len2 == Add(Mul(ab[1], ab[1]), Mul(ab[2], ab[2]))
    IN  cross(ab, ap) = Zero /\ Le(Zero, dot) /\ Le(dot, len2)

\* every point of P lies on the perimeter of the rectangle R
OnPerimeter(P, R) ==
    \A j \in 1..Len(P) : \E k \in 1..4 : OnSide(P[j], R[k], R[(k % 4) + 1])

\* every side of the rectangle R carries a point of P
EverySideSampled(P, R) ==
    \A k \in 1..4 : \E j \in 1..Len(P) : OnSide(P[j], R[k], R[(k % 4) + 1])

\* the area of the rectangle R, from two adjacent sides
TrueArea(R) == Abs(cross(PtSub(R[2], R[1]), PtSub(R[4], R[1])))

\* the least and the greatest coordinate c of the points of P
LeastOf(P, c) ==
    CHOOSE v \in {P[j][c] : j \in 1..Len(P)} :
        \A j \in 1..Len(P) : ~Lt(P[j][c], v)
GreatestOf(P, c) ==
    CHOOSE v \in {P[j][c] : j \in 1..Len(P)} :
        \A j \in 1..Len(P) : ~Lt(v, P[j][c])

\* the spec's scenario: the 4 x 3 rectangle, five points a side
Scenario == <<Pt(0, 0), Pt(4, 0), Pt(4, 3), Pt(0, 3)>>

(***************************************************************************)
(* C1.                                                                     *)
(***************************************************************************)
\* C1 as stated: for a known rectangle and any n >= 15 points sampled on its
\* perimeter, the value solve prints is the rectangle's area.
C1_AnySample ==
    (Returned /\ rect # <<>> /\ Len(orig) >= MinPts /\ OnPerimeter(orig, rect))
        => LastOut = Fmt(TrueArea(rect))

\* C1 amended: for a known rectangle and any n >= 15 points sampled on its
\* perimeter that leave no side of it without a point, the value solve prints
\* is the rectangle's area; for the 4 x 3 rectangle with five points a side it
\* is 12.
C1_SampledSides ==
    /\ (Returned /\ rect # <<>> /\ Len(orig) >= MinPts
            /\ OnPerimeter(orig, rect) /\ EverySideSampled(orig, rect))
         => LastOut = Fmt(TrueArea(rect))
    /\ (Returned /\ rect = Scenario /\ Len(orig) = 20) => LastOut = Num(12)

C1_Witness ==
    /\ Returned /\ rect = Scenario /\ Len(orig) = 20
    /\ OnPerimeter(orig, rect) /\ EverySideSampled(orig, rect)
    /\ LastOut = Num(12)

(***************************************************************************)
(* C2.                                                                     *)
(***************************************************************************)
\* C2: every three consecutive points of the hull lower_hull builds and
\* returns make a strict left turn (cross product > 0), so no three
\* consecutive hull points are collinear, whatever the input.
C2_StrictTurns ==
    pc \in {"hull", "edges"} =>
        \A k \in 1..(Len(hull) - 2) :
            Lt(Zero, cross(PtSub(hull[k + 1], hull[k]),
                           PtSub(hull[k + 2], hull[k + 1])))

C2_Witness ==
    /\ pc = "edges" /\ Len(hull) >= 3
    /\ \E j, k \in 1..Len(pts) : j # k /\ pts[j][1] = pts[k][1]
    /\ pops > 0

(***************************************************************************)
(* C3.                                                                     *)
(***************************************************************************)
\* C3 as stated: when neither pass accepts a candidate, solve prints no area
\* (it reports a failure instead).
C3_NoSilentArea == (Returned /\ NoAccept) => Len(out) < calls

\* C3 amended: when neither pass accepts a candidate, solve reports no
\* failure: it prints one value, the fallback's, a finite number.
C3_FallbackPrints ==
    (Returned /\ NoAccept) =>
        /\ via = "fallback"
        /\ Len(out) = calls
        /\ IsFin(LastOut)

C3_Witness ==
    /\ Returned /\ NoAccept /\ via = "fallback"
    /\ \E k \in 1..Len(trace) : trace[k].t = 1 /\ trace[k].verdict = "reject"

(***************************************************************************)
(* C4.                                                                     *)
(***************************************************************************)
\* C4: the value the fallback prints is (max_x - min_x) * (max_y - min_y)
\* over the points as they were read.
C4_BoundingBox ==
    (Returned /\ via = "fallback") =>
        LastOut = Mul(Sub(GreatestOf(orig, 1), LeastOf(orig, 1)),
                      Sub(GreatestOf(orig, 2), LeastOf(orig, 2)))

C4_Witness ==
    /\ Returned /\ via = "fallback"
    /\ Lt(Zero, LastOut)
    /\ LeastOf(orig, 1) # LeastOf(orig, 2)

(***************************************************************************)
(* C5.                                                                     *)
(***************************************************************************)
\* C5 as stated: a horizontal or vertical candidate is never accepted, solve
\* never prints NaN, and an input with such a candidate is answered by the
\* fallback.
C5_RoutedToFallback ==
    /\ \A k \in 1..Len(trace) : Degenerate(trace[k]) => trace[k].verdict # "accept"
    /\ \A k \in 1..Len(out) : ~IsNan(out[k])
    /\ (Returned /\ \E k \in 1..Len(trace) : Degenerate(trace[k]))
         => via = "fallback"

\* C5 amended: a horizontal or vertical candidate is never accepted and solve
\* never prints NaN; the search goes on with the next candidate, and the
\* fallback answers when every candidate examined was of that kind.
C5_NeverAccepted ==
    /\ \A k \in 1..Len(trace) : Degenerate(trace[k]) => trace[k].verdict # "accept"
    /\ \A k \in 1..Len(out) : ~IsNan(out[k])
    /\ (Returned /\ \A k \in 1..Len(trace) : Degenerate(trace[k]))
         => via = "fallback"

C5_Witness ==
    /\ Returned /\ via = "fallback"
    /\ \E k \in 1..Len(trace) : trace[k].lines[1][1] = Zero
    /\ \E k \in 1..Len(trace) : IsInf(trace[k].lines[1][1])
    /\ \A k \in 1..Len(trace) : Degenerate(trace[k])

Fits(l, p) == LtEps(Abs(Sub(Add(Mul(l[1], p[1]), l[2]), p[2])))

\* C7: a candidate's area is printed only if every input point is within eps
\* of one of its four lines; a candidate that some point fits none of the
\* lines of is rejected, and only such a candidate is.
C7_AllPointsCovered ==
    \A k \in 1..Len(trace) :
        LET e == trace[k]
            P == PassPts(e.t)
            covered == \A j \in 1..Len(P) : \E m \in 1..4 : Fits(e.lines[m], P[j])
        IN  /\ e.verdict = "accept" => covered
            /\ e.verdict = "reject" <=> ~covered

C7_Witness ==
    /\ Returned /\ via = "candidate" /\ Len(orig) >= MinPts
    /\ \E k \in 1..Len(trace) : trace[k].verdict = "reject"

(***************************************************************************)
(* C8.                                                                     *)
(***************************************************************************)
\* the values printed are as many as the calls that have returned
OneValuePerCall ==
    /\ pc \in {"pass", "hull", "edges"} => Len(out) = calls - 1
    /\ pc \in {"main", "exit"} => Len(out) = calls
    /\ pc = "exit" => tleft = 0

\* C8: every call of solve prints exactly one value: while a call runs the
\* values printed are those of the calls before it, and when it has returned
\* there is one value for each call made, so at exit one for each test case;
\* a value is written after those of the earlier test cases, which stay.
C8_OnePerCall ==
    /\ []OneValuePerCall
    /\ [][\/ out' = out
          \/ Len(out') = Len(out) + 1 /\ SubSeq(out', 1, Len(out)) = out]_vars

C8_Witness ==
    /\ pc = "exit" /\ calls >= 2 /\ Len(out) = calls
    /\ out[1] # out[2]

(***************************************************************************)
(* C9.                                                                     *)
(***************************************************************************)
\* the hull starts at the least point and ends at the greatest, holds input
\* points only, and has every input point on or to the left of each edge
HullBounds ==
    /\ Len(hull) >= 1
    /\ \A j \in 1..Len(pts) : ~PtLt(pts[j], hull[1]) /\ ~PtLt(hull[Len(hull)], pts[j])
    /\ \A k \in 1..Len(hull) : \E j \in 1..Len(pts) : hull[k] = pts[j]
    /\ \A k \in 1..(Len(hull) - 1) : \A j \in 1..Len(pts) :
           Le(Zero, cross(PtSub(hull[k + 1], hull[k]), PtSub(pts[j], hull[k])))

\* C9 as stated: for n >= 1 points, the hull returned starts at the least
\* point, ends at the greatest, holds input points only, in strictly
\* increasing order, and has every input point on or to the left of each edge.
C9_StrictlyIncreasing ==
    pc = "edges" =>
        /\ HullBounds
        /\ \A k \in 1..(Len(hull) - 1) : PtLt(hull[k], hull[k + 1])

\* C9 amended: the same, with the order strictly increasing unless all the
\* n >= 2 input points are one point p, when the hull is p, p.
C9_IncreasingUnlessOnePoint ==
    pc = "edges" =>
        /\ HullBounds
        /\ \/ \A k \in 1..(Len(hull) - 1) : PtLt(hull[k], hull[k + 1])
           \/ /\ Len(pts) >= 2
              /\ \A j \in 1..Len(pts) : pts[j] = pts[1]
              /\ hull = <<pts[1], pts[1]>>

C9_Witness ==
    /\ pc = "edges" /\ Len(hull) >= 3 /\ Len(pts) > Len(hull)
    /\ t = 1

(***************************************************************************)
(* C10.                                                                    *)
(***************************************************************************)
\* the length of the longest input
MaxLen ==
    CHOOSE m \in {Len(c.pts) : c \in Cases \cup BatchCases} :
        \A c \in Cases \cup BatchCases : Len(c.pts) <= m

\* the steps one pass over n points can take, and more than two passes can
PassSteps(n) == 3 * n + 4
CallSteps == 2 * PassSteps(MaxLen) + 3

\* a number that is never negative and that every step makes smaller
Rank ==
    LET n == Len(pts)
        left == (1 - t) * PassSteps(n)
    IN  CASE pc = "exit" -> 0
          [] pc = "main" -> 1 + tleft * CallSteps
          [] pc = "pass" ->
               2 + tleft * CallSteps + (IF t < 2 THEN left + PassSteps(n) ELSE 0)
          [] pc = "hull" ->
               2 + tleft * CallSteps + left + 2 * (n - hi) + Len(hull) + n + 2
          [] pc = "edges" ->
               2 + tleft * CallSteps + left + n + 1 - i

\* C10: solve terminates: every step makes Rank smaller and Rank is never
\* negative; there are at most two passes; a pass examines no edge twice;
\* lower_hull pops only points it has pushed, each once; and the fallback
\* reads the points as they were read, negated twice.
Terminates ==
    /\ Rank >= 0
    /\ t \in 0..2
    /\ \A j, k \in 1..Len(trace) :
           (trace[j].t = trace[k].t /\ trace[j].i = trace[k].i) => j = k
    /\ pc = "hull" => pops + Len(hull) = hi /\ hi <= Len(locs)
    /\ pops <= Len(pts)
    /\ (pc = "pass" /\ t = 2) => pts = orig

C10_Terminates == []Terminates /\ [][Rank' < Rank]_vars

C10_Witness ==
    /\ pc = "pass" /\ t = 2 /\ pts = orig
    /\ Len(trace) > 0 /\ pops > 0
    /\ \E j \in 1..Len(pts) : pts[j][1] # Zero

=============================================================================
